---- MODULE Spec2Model ----
(***************************************************************************)
(* The restaurant application (Django app `sim`): the URL table of         *)
(* sim/urls.py, the four Restaurant views it dispatches to, the test       *)
(* client calls of sim/tests/test_views.py and the RestaurantFactory of    *)
(* sim/factories.py.                                                       *)
(*                                                                         *)
(* sim/views.py, sim/forms.py and sim/models.py are not among the source   *)
(* files; the views and the form are modelled from the specification       *)
(* (sections 4, 6 and 7) and from the field names the factory passes to    *)
(* the Restaurant constructor.                                             *)
(***************************************************************************)
EXTENDS Integers, Sequences, FiniteSets, TLC

VARIABLES
    rows,                \* the Restaurant table: primary key -> record
    nextPk,              \* the next primary key the database assigns
    request,             \* the last request the test client sent
    response,            \* the response to it
    before,              \* the Restaurant table as it was before the last step
    seq,                 \* RestaurantFactory's sequence counter
    built,               \* the instances RestaurantFactory has produced, in order
    address_first_line,  \* RestaurantFactory.address_first_line (class attribute)
    phone_number         \* RestaurantFactory.phone_number (class attribute)

vars == <<rows, nextPk, request, response, before, seq, built,
          address_first_line, phone_number>>

webVars == <<rows, nextPk, request, response, before>>

-----------------------------------------------------------------------------
(* Bounds *)

MaxPk == 2      \* primary keys the database hands out
MaxSeq == 25    \* RestaurantFactory() calls in one process

-----------------------------------------------------------------------------
(* Decimal formatting and parsing: f'{n}' and the <int:pk> path converter *)

Digit == <<"0", "1", "2", "3", "4", "5", "6", "7", "8", "9">>

RECURSIVE Dec(_)
Dec(n) == IF n < 10 THEN Digit[n + 1] ELSE Dec(n \div 10) \o Digit[(n % 10) + 1]

IntRange == 0 .. (MaxPk + 1)

IsInt(s) == \E k \in IntRange : Dec(k) = s

ToInt(s) == CHOOSE k \in IntRange : Dec(k) = s

-----------------------------------------------------------------------------
(* sim/factories.py *)

FakeAddresses == {"1 Main St", "2 Oak Ave"}

FakePhones == {"555-0100", "555-0199"}

\* the name formatted once, when the class is defined
RestaurantNameOnce(n) == "Restaurant " \o Dec(0)

RestaurantName(n) == "Restaurant " \o Dec(n)

RestaurantFactory(n) ==
    [address_first_line |-> address_first_line,
     phone_number |-> phone_number,
     name |-> RestaurantName(n)]

FactoryInit ==
    /\ seq = 0
    /\ built = <<>>
    /\ address_first_line \in FakeAddresses
    /\ phone_number \in FakePhones

CallRestaurantFactory ==
    /\ seq < MaxSeq
    /\ seq' = seq + 1
    /\ built' = Append(built, RestaurantFactory(seq))
    /\ UNCHANGED <<address_first_line, phone_number>>
    /\ UNCHANGED webVars

-----------------------------------------------------------------------------
(* sim/urls.py *)

IntPk == "<int:pk>"

\* the edit and delete routes wired to each other's view
urlpatternsSwapped ==
    << [route |-> <<"restaurants">>,
        view |-> "restaurant_list", name |-> "restaurant_list"],
       [route |-> <<"restaurants", "new">>,
        view |-> "restaurant_create", name |-> "restaurant_create"],
       [route |-> <<"restaurants", IntPk, "edit">>,
        view |-> "restaurant_delete", name |-> "restaurant_edit"],
       [route |-> <<"restaurants", IntPk, "delete">>,
        view |-> "restaurant_update", name |-> "restaurant_delete"] >>

\* the first line copied to the others without changing the view
urlpatternsCopied ==
    << [route |-> <<"restaurants">>,
        view |-> "restaurant_list", name |-> "restaurant_list"],
       [route |-> <<"restaurants", "new">>,
        view |-> "restaurant_list", name |-> "restaurant_create"],
       [route |-> <<"restaurants", IntPk, "edit">>,
        view |-> "restaurant_list", name |-> "restaurant_edit"],
       [route |-> <<"restaurants", IntPk, "delete">>,
        view |-> "restaurant_list", name |-> "restaurant_delete"] >>

\* the list and create routes wired to each other's view
urlpatternsListCreate ==
    << [route |-> <<"restaurants">>,
        view |-> "restaurant_create", name |-> "restaurant_list"],
       [route |-> <<"restaurants", "new">>,
        view |-> "restaurant_list", name |-> "restaurant_create"],
       [route |-> <<"restaurants", IntPk, "edit">>,
        view |-> "restaurant_update", name |-> "restaurant_edit"],
       [route |-> <<"restaurants", IntPk, "delete">>,
        view |-> "restaurant_delete", name |-> "restaurant_delete"] >>

urlpatterns ==
    << [route |-> <<"restaurants">>,
        view |-> "restaurant_list", name |-> "restaurant_list"],
       [route |-> <<"restaurants", "new">>,
        view |-> "restaurant_create", name |-> "restaurant_create"],
       [route |-> <<"restaurants", IntPk, "edit">>,
        view |-> "restaurant_update", name |-> "restaurant_edit"],
       [route |-> <<"restaurants", IntPk, "delete">>,
        view |-> "restaurant_delete", name |-> "restaurant_delete"] >>

\* path('...') matches a whole path, segment by segment; <int:pk> matches digits
Matches(route, path) ==
    /\ Len(route) = Len(path)
    /\ \A i \in 1 .. Len(route) :
          IF route[i] = IntPk THEN IsInt(path[i]) ELSE route[i] = path[i]

PkOf(route, path) ==
    IF \E i \in 1 .. Len(route) : route[i] = IntPk
    THEN ToInt(path[CHOOSE i \in 1 .. Len(route) : route[i] = IntPk])
    ELSE 0

NoMatch == [view |-> "", pk |-> 0]

\* the resolver takes the first pattern of urlpatterns that matches
Resolve(path) ==
    IF \E i \in 1 .. Len(urlpatterns) : Matches(urlpatterns[i].route, path)
    THEN LET i == CHOOSE i \in 1 .. Len(urlpatterns) :
                     /\ Matches(urlpatterns[i].route, path)
                     /\ \A j \in 1 .. (i - 1) : ~Matches(urlpatterns[j].route, path)
         IN  [view |-> urlpatterns[i].view,
              pk |-> PkOf(urlpatterns[i].route, path)]
    ELSE NoMatch

\* reverse('sim:<name>', args=[pk])
reverse(name, pk) ==
    LET p == urlpatterns[CHOOSE i \in 1 .. Len(urlpatterns) : urlpatterns[i].name = name]
    IN  [i \in 1 .. Len(p.route) |->
            IF p.route[i] = IntPk THEN Dec(pk) ELSE p.route[i]]

-----------------------------------------------------------------------------
(* The Restaurant form: the fields the factory passes to Restaurant(...) *)

FormFields == {"name", "address_first_line", "phone_number"}

\* the keys a POST may carry: the form's fields and the tests' key "address"
PostKeys == FormFields \cup {"address"}

\* what a user types into the four inputs (the values of the tests' data)
Submissions ==
    { [name |-> "New Restaurant", address |-> "123 New Street",
       address_first_line |-> "123 New Street", phone_number |-> "987-654-3210"],
      [name |-> "Updated Restaurant", address |-> "456 Updated Street",
       address_first_line |-> "456 Updated Street", phone_number |-> "111-222-3333"],
      [name |-> "", address |-> "123 New Street",
       address_first_line |-> "123 New Street", phone_number |-> "987-654-3210"] }

\* the keys a POST carries: any of them
KeySets == SUBSET PostKeys

EmptyData == [k \in {} |-> ""]

\* request.POST
PostData == { [k \in S |-> b[k]] : b \in Submissions, S \in KeySets }

\* form.errors: a required field is missing or blank
FormErrors(data) == {f \in FormFields : f \notin DOMAIN data \/ data[f] = ""}

is_valid(data) == FormErrors(data) = {}

\* the instance a valid form saves: the form's fields, other keys ignored
cleaned_data(data) == [f \in FormFields |-> data[f]]

-----------------------------------------------------------------------------
(* The views *)

NoRows == [p \in {} |-> [f \in FormFields |-> ""]]

Response(status, template, object_list, errors) ==
    [status |-> status, template |-> template,
     object_list |-> object_list, errors |-> errors]

Redirect == Response(302, "", NoRows, {})

NotFound == Response(404, "", NoRows, {})

Result(r, n, resp) == [rows |-> r, nextPk |-> n, response |-> resp]

Insert(r, pk, rec) == [p \in DOMAIN r \cup {pk} |-> IF p = pk THEN rec ELSE r[p]]

Remove(r, pk) == [p \in DOMAIN r \ {pk} |-> r[p]]

restaurant_list(req, r, n) ==
    Result(r, n, Response(200, "restaurant_list.html", r, {}))

restaurant_create(req, r, n) ==
    IF req.method = "POST" /\ is_valid(req.data)
    THEN Result(Insert(r, n, cleaned_data(req.data)), n + 1, Redirect)
    ELSE Result(r, n, Response(200, "restaurant_form.html", NoRows,
                               IF req.method = "POST" THEN FormErrors(req.data) ELSE {}))

restaurant_update(req, pk, r, n) ==
    IF pk \notin DOMAIN r THEN Result(r, n, NotFound)
    ELSE IF req.method = "POST" /\ is_valid(req.data)
    THEN Result(Insert(r, pk, cleaned_data(req.data)), n, Redirect)
    ELSE Result(r, n, Response(200, "restaurant_form.html", NoRows,
                               IF req.method = "POST" THEN FormErrors(req.data) ELSE {}))

\* the record deleted whatever the method
restaurant_delete_any_method(req, pk, r, n) ==
    IF pk \notin DOMAIN r THEN Result(r, n, NotFound)
    ELSE Result(Remove(r, pk), n, Redirect)

restaurant_delete(req, pk, r, n) ==
    IF pk \notin DOMAIN r THEN Result(r, n, NotFound)
    ELSE IF req.method = "POST"
    THEN Result(Remove(r, pk), n, Redirect)
    ELSE Result(r, n, Response(200, "restaurant_confirm_delete.html", NoRows, {}))

\* the handler: resolve the path, call the view
Dispatch(req, r, n) ==
    LET m == Resolve(req.path)
    IN  CASE m.view = "restaurant_list" -> restaurant_list(req, r, n)
          [] m.view = "restaurant_create" -> restaurant_create(req, r, n)
          [] m.view = "restaurant_update" -> restaurant_update(req, m.pk, r, n)
          [] m.view = "restaurant_delete" -> restaurant_delete(req, m.pk, r, n)
          [] OTHER -> Result(r, n, NotFound)

-----------------------------------------------------------------------------
(* The test client and the fixtures of sim/tests/test_views.py *)

Request(method, path, data) == [path |-> path, data |-> data, method |-> method]

NoRequest == Request("", <<>>, EmptyData)

NoResponse == Response(0, "", NoRows, {})

\* the primary keys a path may name; 0 is never assigned
Pks == 0 .. MaxPk

Paths ==
    {reverse("restaurant_list", 0), reverse("restaurant_create", 0)}
    \cup {reverse("restaurant_edit", pk) : pk \in Pks}
    \cup {reverse("restaurant_delete", pk) : pk \in Pks}
    \cup {<<"restaurants", "new", "edit">>}

Handle(req) ==
    LET res == Dispatch(req, rows, nextPk)
    IN  /\ request = NoRequest
        /\ res.nextPk <= MaxPk + 1
        /\ request' = req
        /\ rows' = res.rows
        /\ nextPk' = res.nextPk
        /\ response' = res.response
        /\ before' = rows
        /\ UNCHANGED <<seq, built, address_first_line, phone_number>>

\* self.client.get(path)
ClientGet == \E path \in Paths : Handle(Request("GET", path, EmptyData))

\* self.client.post(path, data)
ClientPost == \E path \in Paths, data \in PostData : Handle(Request("POST", path, data))

\* restaurant = RestaurantFactory(); restaurant.save()
SaveRestaurant ==
    /\ request = NoRequest
    /\ nextPk <= MaxPk
    /\ seq < MaxSeq
    /\ seq' = seq + 1
    /\ built' = Append(built, RestaurantFactory(seq))
    /\ rows' = Insert(rows, nextPk, RestaurantFactory(seq))
    /\ nextPk' = nextPk + 1
    /\ before' = rows'
    /\ UNCHANGED <<request, response, address_first_line, phone_number>>

\* the test is done with the response: `response` is rebound or the test returns
DropResponse ==
    /\ request # NoRequest
    /\ request' = NoRequest
    /\ response' = NoResponse
    /\ before' = rows
    /\ UNCHANGED <<rows, nextPk, seq, built, address_first_line, phone_number>>

-----------------------------------------------------------------------------

Init ==
    /\ FactoryInit
    /\ rows = NoRows
    /\ nextPk = 1
    /\ before = NoRows
    /\ request = NoRequest
    /\ response = NoResponse

Next == ClientGet \/ ClientPost \/ SaveRestaurant \/ DropResponse

Spec == Init /\ [][Next]_vars

NextFactory == CallRestaurantFactory

SpecFactory == Init /\ [][NextFactory]_vars

-----------------------------------------------------------------------------
(* Properties *)

Get == request.method = "GET"

Post == request.method = "POST"

ListPath == reverse("restaurant_list", 0)

CreatePath == reverse("restaurant_create", 0)

EditPath(pk) == reverse("restaurant_edit", pk)

DeletePath(pk) == reverse("restaurant_delete", pk)

Stored == DOMAIN before

Submitted == [f \in FormFields |-> request.data[f]]

OthersUnchanged(pk) ==
    \A p \in Stored \ {pk} : p \in DOMAIN rows /\ rows[p] = before[p]

\* C1: a POST to the delete route of a stored record r is answered with 302;
\* afterwards r is not stored and every other record is stored, unchanged.
C1_DeleteRemoves ==
    \A pk \in Pks :
        (Post /\ request.path = DeletePath(pk) /\ pk \in Stored)
        => /\ response.status = 302
           /\ DOMAIN rows = Stored \ {pk}
           /\ OthersUnchanged(pk)

C1_Witness ==
    \E pk \in Pks :
        /\ Post /\ request.path = DeletePath(pk) /\ pk \in Stored
        /\ Cardinality(Stored) >= 2
        /\ response.status = 302

ToCreateOrUpdate ==
    \/ request.path = CreatePath
    \/ \E pk \in Stored : request.path = EditPath(pk)

TestKeys == {"name", "address", "phone_number"}

C4_UpdateReplaces ==
    \A pk \in Pks :
        (Post /\ request.path = EditPath(pk) /\ pk \in Stored /\ is_valid(request.data))
        => /\ DOMAIN rows = Stored
           /\ rows[pk] = Submitted
           /\ OthersUnchanged(pk)

C4_Witness ==
    \E pk \in Pks :
        /\ Post /\ request.path = EditPath(pk) /\ pk \in Stored
        /\ is_valid(request.data)
        /\ Cardinality(Stored) >= 2
        /\ rows[pk] # before[pk]

\* C5: a GET is answered with status 200 and the route's template: the list
\* template for the list route, the form template for the create route and
\* the edit route of a stored record, the confirmation template for the
\* delete route of a stored record.
C5_GetTemplates ==
    Get =>
      /\ request.path = ListPath
           => (response.status = 200 /\ response.template = "restaurant_list.html")
      /\ request.path = CreatePath
           => (response.status = 200 /\ response.template = "restaurant_form.html")
      /\ \A pk \in Stored :
           /\ request.path = EditPath(pk)
                => (response.status = 200 /\ response.template = "restaurant_form.html")
           /\ request.path = DeletePath(pk)
                => (response.status = 200
                    /\ response.template = "restaurant_confirm_delete.html")

C5_Witness ==
    /\ Get
    /\ \E pk \in Stored : request.path = DeletePath(pk)
    /\ response.template = "restaurant_confirm_delete.html"

ToMissing ==
    \E pk \in Pks \ Stored : request.path \in {EditPath(pk), DeletePath(pk)}

\* C6: a GET or POST to the edit or delete route with a primary key that
\* identifies no stored record is answered with not-found and leaves the
\* stored records as they were.
C6_MissingIsNotFound ==
    ((Get \/ Post) /\ ToMissing) => (response.status = 404 /\ rows = before)

\* a second delete POST for a primary key that was stored and deleted
C6_Witness ==
    \E pk \in Pks \ Stored :
        /\ 1 <= pk /\ pk < nextPk
        /\ Stored # {}
        /\ Post /\ request.path = DeletePath(pk)
        /\ response.status = 404

\* C7: a POST of form data that fails validation to the create view, or to
\* the update view of a stored record, re-renders the form with errors and
\* persists nothing.
C7_InvalidPersistsNothing ==
    (Post /\ ToCreateOrUpdate /\ ~is_valid(request.data))
    => /\ rows = before
       /\ response.status = 200
       /\ response.template = "restaurant_form.html"
       /\ response.errors # {}

C7_Witness ==
    /\ Post
    /\ \E pk \in Stored : request.path = EditPath(pk)
    /\ "name" \notin DOMAIN request.data
    /\ response.errors = {"name"}

\* C8: no GET changes the stored records; after a GET to the delete route of
\* a stored record the record is still stored.
C8_GetChangesNothing == Get => rows = before

C8_Witness ==
    /\ Get
    /\ \E pk \in Stored : request.path = DeletePath(pk) /\ pk \in DOMAIN rows
    /\ response.status = 200

\* C9: the collection the list view renders is exactly the stored records,
\* each with its current field values: nothing deleted, nothing left out.
C9_ListShowsStored ==
    request.path = ListPath
    => /\ response.object_list = rows
       /\ rows = before

\* a list after a create, an update and a delete
C9_Witness ==
    /\ Get /\ request.path = ListPath
    /\ \E pk \in 1 .. (nextPk - 1) : pk \notin DOMAIN rows
    /\ \E pk \in DOMAIN rows : rows[pk].name = "Updated Restaurant"
    /\ response.status = 200

\* C10: the names RestaurantFactory generates are 'Restaurant n' with n the
\* number of earlier calls, hence pairwise distinct; address_first_line and
\* phone_number are the same for every instance.
C10_FactoryValues ==
    \A i, j \in 1 .. Len(built) :
        /\ built[i].name = "Restaurant " \o ToString(i - 1)
        /\ i # j => built[i].name # built[j].name
        /\ built[i].address_first_line = built[j].address_first_line
        /\ built[i].phone_number = built[j].phone_number

C10_Witness == Len(built) >= 12 /\ built[12].name = "Restaurant 11"

====
